---- MODULE Spec2Model ----
(***************************************************************************)
(* Model of the port-scanner frontend. js/script.js: the scan form's       *)
(* submit handler, the validators it calls, submitScan with its fetch and  *)
(* resp.json() suspension points, loadResultsPage and the re-scan button.  *)
(* js/script1.js: its submit listener and submitScan. js/scriptgemin.js:   *)
(* handleScanSubmission, the second initializer's copy of script1.js, and  *)
(* loadResultsPage.                                                        *)
(*                                                                         *)
(* Form field values are sequences of one-character strings, so that       *)
(* trim(), replace(/\s+/g, '') and the regular expressions are computed.   *)
(* Stored JSON text is the sequence of its tokens. Messages are strings.   *)
(***************************************************************************)
EXTENDS Integers, Sequences, FiniteSets, TLC

\* ---------------------------------------------------------------- bounds
\* submit events a behaviour may contain
MaxSubmits == 2

\* loadResultsPage calls that render a result in one results document
MaxLoads == 2

\* characters of a target text a validator is tried on
MaxTargetLen == 3

\* characters of a port-list text a validator is tried on
MaxPortsLen == 5

\* ------------------------------------------------------ character classes
Digit == {"0", "1", "2", "3", "4", "5", "6", "7", "8", "9"}

HexLetter == {"a", "b", "c", "d", "e", "f", "A", "B", "C", "D", "E", "F"}

Letter ==
    HexLetter \cup
    {"g", "h", "i", "j", "k", "l", "m", "n", "o", "p", "q", "r", "s", "t",
     "u", "v", "w", "x", "y", "z",
     "G", "H", "I", "J", "K", "L", "M", "N", "O", "P", "Q", "R", "S", "T",
     "U", "V", "W", "X", "Y", "Z"}

\* the characters String.prototype.trim() and the class \s treat as blank
WhiteSpace == {" ", "\t", "\n", "\r", "\f"}

\* ------------------------------------------------------- string helpers
RECURSIVE TrimStart(_)
TrimStart(s) ==
    IF s = <<>> THEN <<>>
    ELSE IF Head(s) \in WhiteSpace THEN TrimStart(Tail(s))
    ELSE s

RECURSIVE TrimEnd(_)
TrimEnd(s) ==
    IF s = <<>> THEN <<>>
    ELSE IF s[Len(s)] \in WhiteSpace THEN TrimEnd(SubSeq(s, 1, Len(s) - 1))
    ELSE s

\* String.prototype.trim
Trim(s) == TrimEnd(TrimStart(s))

IsNotBlank(c) == c \notin WhiteSpace

\* ports.replace(/\s+/g, '')
StripWhiteSpace(s) == SelectSeq(s, IsNotBlank)

AllIn(s, class) == \A i \in 1..Len(s) : s[i] \in class

\* ------------------------------------------------- the target expression
\* [a-zA-Z0-9.-]+
MatchHostname(s) ==
    /\ Len(s) >= 1
    /\ AllIn(s, Letter \cup Digit \cup {".", "-"})

\* \[[0-9a-fA-F:]+\]
MatchBracketedV6(s) ==
    /\ Len(s) >= 3
    /\ s[1] = "["
    /\ s[Len(s)] = "]"
    /\ AllIn(SubSeq(s, 2, Len(s) - 1), Digit \cup HexLetter \cup {":"})

\* (?:\d{1,3}\.){3}\d{1,3} : group = groups already closed by a dot,
\* n = digits read in the current group
RECURSIVE QuadRun(_, _, _)
QuadRun(s, group, n) ==
    IF s = <<>> THEN group = 3 /\ n >= 1
    ELSE IF Head(s) \in Digit THEN n < 3 /\ QuadRun(Tail(s), group, n + 1)
    ELSE IF Head(s) = "." THEN n >= 1 /\ group < 3 /\ QuadRun(Tail(s), group + 1, 0)
    ELSE FALSE

MatchDottedQuad(s) == QuadRun(s, 0, 0)

\* targetRegex.test(target)
targetRegex(s) == MatchHostname(s) \/ MatchBracketedV6(s) \/ MatchDottedQuad(s)

\* --------------------------------------------------- the port expression
\* ^(\d+(?:-\d+)?)(,\d+(?:-\d+)?)*$ as an automaton:
\*   "tok" a token must start, "low" in the first number,
\*   "dash" after the hyphen, "high" in the second number
RECURSIVE PortRun(_, _)
PortRun(s, q) ==
    IF s = <<>> THEN q \in {"low", "high"}
    ELSE LET c == Head(s) IN
         CASE q = "tok"  -> c \in Digit /\ PortRun(Tail(s), "low")
           [] q = "low"  -> \/ c \in Digit /\ PortRun(Tail(s), "low")
                            \/ c = "-" /\ PortRun(Tail(s), "dash")
                            \/ c = "," /\ PortRun(Tail(s), "tok")
           [] q = "dash" -> c \in Digit /\ PortRun(Tail(s), "high")
           [] q = "high" -> \/ c \in Digit /\ PortRun(Tail(s), "high")
                            \/ c = "," /\ PortRun(Tail(s), "tok")

portRegex(s) == PortRun(s, "tok")

\* ------------------------------------------------------------ validators
NoError == "null"

EmptyTargetMsg == "Target IP or Host is required."

InvalidFormatMsg == "Invalid format for IP/hostname."

EmptyPortsMsg == "Custom port list is required."

MalformedPortListMsg ==
    "Invalid port list. Use comma separated numbers or ranges (e.g., 21,80,443-445)."

AgreementRequiredMsg == "You must agree to the Terms of Service."

\* variant: the expression is tested on the trimmed text
validateTargetTrimmed(target) ==
    IF target = <<>> \/ Trim(target) = <<>> THEN EmptyTargetMsg
    ELSE IF ~targetRegex(Trim(target)) THEN InvalidFormatMsg
    ELSE NoError

validateTarget(target) ==
    IF target = <<>> \/ Trim(target) = <<>> THEN EmptyTargetMsg
    ELSE IF ~targetRegex(target) THEN InvalidFormatMsg
    ELSE NoError

\* variant: the expression is tested on the text as typed
validatePortsAsTyped(ports) ==
    IF ports = <<>> \/ Trim(ports) = <<>> THEN EmptyPortsMsg
    ELSE IF ~portRegex(ports) THEN MalformedPortListMsg
    ELSE NoError

validatePorts(ports) ==
    IF ports = <<>> \/ Trim(ports) = <<>> THEN EmptyPortsMsg
    ELSE IF ~portRegex(StripWhiteSpace(ports)) THEN MalformedPortListMsg
    ELSE NoError

\* ------------------------------------------------------------ JSON values
\* A decoded JSON value is a record [t, v]; an object keeps its members as a
\* sequence of <<name, value>> pairs, in the order JSON.stringify writes them.
JNull == [t |-> "null", v |-> <<>>]

JStr(s) == [t |-> "str", v |-> s]

JNum(n) == [t |-> "num", v |-> n]

JArr(items) == [t |-> "arr", v |-> items]

JObj(members) == [t |-> "obj", v |-> members]

\* the value of json.<name>; JNull stands for undefined when there is none
RECURSIVE Member(_, _)
Member(members, name) ==
    IF members = <<>> THEN JNull
    ELSE IF members[Len(members)][1] = name THEN members[Len(members)][2]
    ELSE Member(SubSeq(members, 1, Len(members) - 1), name)

\* JavaScript truthiness of a decoded value
Truthy(j) ==
    CASE j.t = "null" -> FALSE
      [] j.t = "str"  -> Len(j.v) > 0
      [] j.t = "num"  -> j.v # 0
      [] OTHER        -> TRUE

\* `${value}` in a template literal
TemplateText(j) ==
    CASE j.t = "str"  -> j.v
      [] j.t = "num"  -> ToString(j.v)
      [] j.t = "null" -> "null"
      [] j.t = "arr"  -> "[array]"
      [] OTHER        -> "[object Object]"

\* JSON.stringify, as the sequence of tokens of the text it produces
RECURSIVE JSONstringify(_)
RECURSIVE StringifyItems(_)
RECURSIVE StringifyMembers(_)
JSONstringify(j) ==
    CASE j.t = "null" -> <<"null">>
      [] j.t = "str"  -> <<"\"" \o j.v \o "\"">>
      [] j.t = "num"  -> <<ToString(j.v)>>
      [] j.t = "arr"  -> <<"[">> \o StringifyItems(j.v) \o <<"]">>
      [] j.t = "obj"  -> <<"{">> \o StringifyMembers(j.v) \o <<"}">>

StringifyItems(items) ==
    IF items = <<>> THEN <<>>
    ELSE JSONstringify(Head(items)) \o
         (IF Len(items) > 1 THEN <<",">> ELSE <<>>) \o StringifyItems(Tail(items))

StringifyMembers(members) ==
    IF members = <<>> THEN <<>>
    ELSE <<"\"" \o Head(members)[1] \o "\"", ":">> \o JSONstringify(Head(members)[2]) \o
         (IF Len(members) > 1 THEN <<",">> ELSE <<>>) \o StringifyMembers(Tail(members))

\* --------------------------------------------------------- session storage
\* sessionStorage as a function from the keys present to the stored text
ResultKey == "scanResults"

setItem(store, key, text) ==
    [k \in DOMAIN store \cup {key} |-> IF k = key THEN text ELSE store[k]]

hasItem(store, key) == key \in DOMAIN store

EmptyStorage == [k \in {} |-> <<>>]

\* ------------------------------------------------------------ form state
\* What the submit handler can find in the document: each element may be
\* missing (present = FALSE), as the handler's null checks allow.
NoTargetInput == [present |-> FALSE, value |-> <<>>, textContent |-> <<>>]

TargetInput(value, text) == [present |-> TRUE, value |-> value, textContent |-> text]

TargetInputs ==
    { TargetInput(<<" ">>, <<>>),
      TargetInput(<<" ", "a">>, <<>>),
      TargetInput(<<"a", "!">>, <<>>) }

NoSelect == [present |-> FALSE, value |-> ""]

Select(value) == [present |-> TRUE, value |-> value]

PortModeSelects == {Select("top100"), Select("custom")}

NoCustomPorts == [present |-> FALSE, value |-> <<>>]

CustomPorts(value) == [present |-> TRUE, value |-> value]

CustomPortsInputs ==
    { NoCustomPorts,
      CustomPorts(<<"1">>),
      CustomPorts(<<"1", ",", " ", "2">>),
      CustomPorts(<<"1", ",", ",", "2">>) }

NoCheckbox == [present |-> FALSE, checked |-> FALSE]

Checkbox(checked) == [present |-> TRUE, checked |-> checked]

TermsCheckboxes == {NoCheckbox, Checkbox(FALSE), Checkbox(TRUE)}

\* a form that passes every check; protocol is the value of the checked
\* input[name="protocol"], "" when none is checked
PlainForm ==
    [ targetInput |-> TargetInput(<<"a">>, <<>>), protocol |-> "udp",
      portMode |-> Select("top100"), customPorts |-> CustomPorts(<<>>),
      terms |-> Checkbox(TRUE) ]

\* forms that take the handler's fallbacks: no protocol checked, no port-mode
\* select, no target input, a target element with text content only, a
\* custom-port field of blanks
FallbackForms ==
    { [PlainForm EXCEPT !.protocol = ""],
      [PlainForm EXCEPT !.portMode = NoSelect],
      [PlainForm EXCEPT !.targetInput = NoTargetInput],
      [PlainForm EXCEPT !.targetInput = TargetInput(<<>>, <<"b", " ">>)],
      [PlainForm EXCEPT !.portMode = Select("custom"), !.customPorts = CustomPorts(<<" ">>)] }

Forms ==
    [ targetInput : TargetInputs,
      protocol    : {"udp"},
      portMode    : PortModeSelects,
      customPorts : CustomPortsInputs,
      terms       : TermsCheckboxes ]
    \cup FallbackForms

\* ------------------------------------------------------ the submit handler
readTarget(form) ==
    IF form.targetInput.present /\ form.targetInput.value # <<>>
      THEN Trim(form.targetInput.value)
    ELSE IF form.targetInput.present /\ form.targetInput.textContent # <<>>
      THEN Trim(form.targetInput.textContent)
    ELSE <<>>

readProtocol(form) == IF form.protocol # "" THEN form.protocol ELSE "tcp"

readPortMode(form) == IF form.portMode.present THEN form.portMode.value ELSE "top100"

readPorts(form) ==
    IF readPortMode(form) = "custom" /\ form.customPorts.present
      THEN Trim(form.customPorts.value)
    ELSE <<>>

\* variant: every failing check is reported
validationAlertsAll(form) ==
    (IF validateTarget(readTarget(form)) # NoError
       THEN <<validateTarget(readTarget(form))>> ELSE <<>>) \o
    (IF readPortMode(form) = "custom" /\ validatePorts(readPorts(form)) # NoError
       THEN <<validatePorts(readPorts(form))>> ELSE <<>>) \o
    (IF form.terms.present /\ ~form.terms.checked
       THEN <<AgreementRequiredMsg>> ELSE <<>>)

\* the alerts the handler raises before it returns; none when it goes on to
\* build the payload
validationAlerts(form) ==
    IF validateTarget(readTarget(form)) # NoError
      THEN <<validateTarget(readTarget(form))>>
    ELSE IF readPortMode(form) = "custom" /\ validatePorts(readPorts(form)) # NoError
      THEN <<validatePorts(readPorts(form))>>
    ELSE IF form.terms.present /\ ~form.terms.checked
      THEN <<AgreementRequiredMsg>>
    ELSE <<>>

\* variant: the custom-port field is sent whatever the mode
buildPayloadLeftover(form) ==
    [ target    |-> readTarget(form),
      protocol  |-> readProtocol(form),
      port_mode |-> readPortMode(form),
      ports     |-> IF form.customPorts.present
                      THEN Trim(form.customPorts.value) ELSE <<>> ]

\* the payload object
buildPayload(form) ==
    [ target    |-> readTarget(form),
      protocol  |-> readProtocol(form),
      port_mode |-> readPortMode(form),
      ports     |-> IF readPortMode(form) = "custom" THEN readPorts(form) ELSE <<>> ]

\* the characters of a field value as one string
RECURSIVE Join(_)
Join(chars) == IF chars = <<>> THEN "" ELSE Head(chars) \o Join(Tail(chars))

\* JSON.stringify(scanData), the body of the POST
requestBody(scanData) ==
    JSONstringify(JObj(<< <<"target", JStr(Join(scanData.target))>>,
                          <<"protocol", JStr(scanData.protocol)>>,
                          <<"port_mode", JStr(scanData.port_mode)>>,
                          <<"ports", JStr(Join(scanData.ports))>> >>))

\* -------------------------------------------------------------- responses
\* resp.json() rejects on a body that is not JSON (empty, HTML, truncated)
Undecodable == [t |-> "undecodable", v |-> <<>>]

ExampleResult ==
    JObj(<< <<"open_ports", JArr(<<>>)>>,
            <<"protocol", JStr("tcp")>>,
            <<"ports_list", JStr("top100")>> >>)

Statuses == {200, 500}

\* the bodies the backend is taken to answer with, by status
Bodies(status) ==
    IF status = 200
      THEN << Undecodable,
              JObj(<< <<"error", JStr("host unreachable")>> >>),
              ExampleResult >>
      ELSE << Undecodable,
              JNull,
              JObj(<<>>),
              JObj(<< <<"error", JStr("")>> >>),
              JObj(<< <<"error", JStr("host unreachable")>> >>) >>

\* Response.ok
IsOk(status) == status >= 200 /\ status <= 299

Response(status, body) ==
    [kind |-> "response", ok |-> IsOk(status), status |-> status, body |-> body]

\* fetch() rejected: there is no response
Rejected == [kind |-> "rejected", ok |-> FALSE, status |-> 0, body |-> Undecodable]

NoResponse == [kind |-> "none", ok |-> FALSE, status |-> 0, body |-> Undecodable]

\* ------------------------------------------------------------- submitScan
BusyLabel == "Scanning..."

DefaultLabel == "Start Scan"

ResultsPage == "results.html"

ScanningPage == "scanning.html"

NetworkErrorMsg ==
    "Network Error: Could not connect to backend. Is app.py running on http://127.0.0.1:5000 ?"

ScanErrorMsg(msg) == "Scan Error: " \o msg

StatusMsg(status) == "Scan failed with status " \o ToString(status)

\* json.error
ErrorField(json) == IF json.t = "obj" THEN Member(json.v, "error") ELSE JNull

\* the button on entry to submitScan
busyButton(b) ==
    IF b.present
      THEN [b EXCEPT !.disabled = TRUE, !.originalText = b.innerHTML, !.innerHTML = BusyLabel]
      ELSE b

\* the finally block
restoreButton(b) ==
    IF b.present
      THEN [b EXCEPT !.disabled = FALSE,
                     !.innerHTML = IF b.originalText # "" THEN b.originalText ELSE DefaultLabel]
      ELSE b

\* variant: the catch block fetches again
CaughtRetry(store) ==
    [alerts |-> <<NetworkErrorMsg>>, store |-> store, href |-> "", issued |-> 1,
     effects |-> <<"alert">>]

\* the catch block
Caught(store) ==
    [alerts |-> <<NetworkErrorMsg>>, store |-> store, href |-> "", issued |-> 0,
     effects |-> <<"alert">>]

\* variant: the result is stored under another key
submitScanTryOtherKey(resp, store) ==
    IF resp.kind = "rejected" THEN Caught(store)
    ELSE IF resp.body.t = "undecodable" THEN Caught(store)
    ELSE IF ~resp.ok THEN
        IF resp.body.t = "null" THEN Caught(store)
        ELSE [alerts |-> << ScanErrorMsg(IF Truthy(ErrorField(resp.body))
                                           THEN TemplateText(ErrorField(resp.body))
                                           ELSE StatusMsg(resp.status)) >>,
              store |-> store, href |-> "", issued |-> 0, effects |-> <<"alert">>]
    ELSE [alerts |-> <<>>,
          store |-> setItem(store, "scanResult", JSONstringify(resp.body)),
          href |-> ResultsPage, issued |-> 0, effects |-> <<"store", "navigate">>]

\* variant: the body's error field is not looked at
submitScanTryStatusOnly(resp, store) ==
    IF resp.kind = "rejected" THEN Caught(store)
    ELSE IF resp.body.t = "undecodable" THEN Caught(store)
    ELSE IF ~resp.ok THEN
        IF resp.body.t = "null" THEN Caught(store)
        ELSE [alerts |-> << ScanErrorMsg(StatusMsg(resp.status)) >>,
              store |-> store, href |-> "", issued |-> 0, effects |-> <<"alert">>]
    ELSE [alerts |-> <<>>,
          store |-> setItem(store, ResultKey, JSONstringify(resp.body)),
          href |-> ResultsPage, issued |-> 0, effects |-> <<"store", "navigate">>]

\* the try block from the point the fetch has settled, with its catch:
\* what is alerted, what the storage holds afterwards, the location assigned
\* ("" when none), the fetches issued, and the order of these effects
submitScanTry(resp, store) ==
    IF resp.kind = "rejected" THEN Caught(store)
    ELSE IF resp.body.t = "undecodable" THEN Caught(store)
    ELSE IF ~resp.ok THEN
        IF resp.body.t = "null" THEN Caught(store)
        ELSE [alerts |-> << ScanErrorMsg(IF Truthy(ErrorField(resp.body))
                                           THEN TemplateText(ErrorField(resp.body))
                                           ELSE StatusMsg(resp.status)) >>,
              store |-> store, href |-> "", issued |-> 0, effects |-> <<"alert">>]
    ELSE [alerts |-> <<>>,
          store |-> setItem(store, ResultKey, JSONstringify(resp.body)),
          href |-> ResultsPage, issued |-> 0, effects |-> <<"store", "navigate">>]

\* variant: the button is restored at the end of the try block only
submitScanExitNoFinally(resp, store, b) ==
    [out |-> submitScanTry(resp, store),
     btn |-> IF submitScanTry(resp, store).href # "" THEN restoreButton(b) ELSE b,
     effects |-> submitScanTry(resp, store).effects \o
                 (IF b.present /\ submitScanTry(resp, store).href # ""
                    THEN <<"enable">> ELSE <<>>)]

\* the whole remainder of a call: try, catch, finally
submitScanExit(resp, store, b) ==
    [out |-> submitScanTry(resp, store),
     btn |-> restoreButton(b),
     effects |-> submitScanTry(resp, store).effects \o
                 (IF b.present THEN <<"enable">> ELSE <<>>)]

\* String.prototype.split: the pieces of s between the separators
RECURSIVE Split(_, _)
Split(s, sep) ==
    IF \E k \in 1..Len(s) : s[k] = sep
      THEN LET k == CHOOSE k \in 1..Len(s) :
                        s[k] = sep /\ \A j \in 1..(k - 1) : s[j] # sep
           IN <<SubSeq(s, 1, k - 1)>> \o Split(SubSeq(s, k + 1, Len(s)), sep)
      ELSE <<s>>

\* ------------------------------------------------------------- JSON.parse
\* the characters of a token
Chars(s) == [i \in 1..Len(s) |-> SubSeq(s, i, i)]

RECURSIVE ParseInt(_, _)
ParseInt(s, acc) ==
    IF s = <<>> THEN acc ELSE ParseInt(Tail(s), 10 * acc + (CHOOSE n \in 0..9 : ToString(n) = Head(s)))

ParseFailed == [ok |-> FALSE, v |-> JNull, rest |-> <<>>]

\* one value off the front of the tokens: [ok, v, rest]
RECURSIVE ParseValue(_)
RECURSIVE ParseItems(_, _)
RECURSIVE ParseMembers(_, _)
ParseValue(toks) ==
    IF toks = <<>> THEN ParseFailed
    ELSE LET tok == Head(toks) IN
         IF tok = "null" THEN [ok |-> TRUE, v |-> JNull, rest |-> Tail(toks)]
         ELSE IF tok = "[" THEN ParseItems(Tail(toks), <<>>)
         ELSE IF tok = "{" THEN ParseMembers(Tail(toks), <<>>)
         ELSE IF Len(tok) >= 2 /\ SubSeq(tok, 1, 1) = "\"" /\ SubSeq(tok, Len(tok), Len(tok)) = "\""
           THEN [ok |-> TRUE, v |-> JStr(SubSeq(tok, 2, Len(tok) - 1)), rest |-> Tail(toks)]
         ELSE IF Len(tok) >= 1 /\ AllIn(Chars(tok), Digit)
           THEN [ok |-> TRUE, v |-> JNum(ParseInt(Chars(tok), 0)), rest |-> Tail(toks)]
         ELSE ParseFailed

\* the items of an array after "[" or ","; items = those read so far
ParseItems(toks, items) ==
    IF toks = <<>> THEN ParseFailed
    ELSE IF Head(toks) = "]" /\ items = <<>>
      THEN [ok |-> TRUE, v |-> JArr(items), rest |-> Tail(toks)]
    ELSE LET item == ParseValue(toks) IN
         IF ~item.ok \/ item.rest = <<>> THEN ParseFailed
         ELSE IF Head(item.rest) = "]"
           THEN [ok |-> TRUE, v |-> JArr(Append(items, item.v)), rest |-> Tail(item.rest)]
         ELSE IF Head(item.rest) = ","
           THEN ParseItems(Tail(item.rest), Append(items, item.v))
         ELSE ParseFailed

\* the members of an object after "{" or ","
ParseMembers(toks, members) ==
    IF toks = <<>> THEN ParseFailed
    ELSE IF Head(toks) = "}" /\ members = <<>>
      THEN [ok |-> TRUE, v |-> JObj(members), rest |-> Tail(toks)]
    ELSE LET name == ParseValue(toks) IN
         IF ~name.ok \/ name.v.t # "str" \/ name.rest = <<>> \/ Head(name.rest) # ":"
           THEN ParseFailed
         ELSE LET value == ParseValue(Tail(name.rest)) IN
              IF ~value.ok \/ value.rest = <<>> THEN ParseFailed
              ELSE IF Head(value.rest) = "}"
                THEN [ok |-> TRUE, v |-> JObj(Append(members, <<name.v.v, value.v>>)),
                      rest |-> Tail(value.rest)]
              ELSE IF Head(value.rest) = ","
                THEN ParseMembers(Tail(value.rest), Append(members, <<name.v.v, value.v>>))
              ELSE ParseFailed

\* JSON.parse(text); Undecodable stands for the SyntaxError it throws
JSONparse(text) ==
    LET r == ParseValue(text) IN
    IF r.ok /\ r.rest = <<>> THEN r.v ELSE Undecodable

\* -------------------------------------------------------- text conversions
LowerCase ==
    <<"a", "b", "c", "d", "e", "f", "g", "h", "i", "j", "k", "l", "m",
      "n", "o", "p", "q", "r", "s", "t", "u", "v", "w", "x", "y", "z">>

UpperCase ==
    <<"A", "B", "C", "D", "E", "F", "G", "H", "I", "J", "K", "L", "M",
      "N", "O", "P", "Q", "R", "S", "T", "U", "V", "W", "X", "Y", "Z">>

\* c as `to` has it, when `from` has c
Recase(c, from, to) ==
    IF \E i \in 1..Len(from) : from[i] = c
      THEN to[CHOOSE i \in 1..Len(from) : from[i] = c]
      ELSE c

\* String.prototype.toUpperCase
RECURSIVE toUpperCase(_)
toUpperCase(s) ==
    IF s = "" THEN ""
    ELSE Recase(SubSeq(s, 1, 1), LowerCase, UpperCase) \o toUpperCase(SubSeq(s, 2, Len(s)))

\* String.prototype.toLowerCase
RECURSIVE toLowerCase(_)
toLowerCase(s) ==
    IF s = "" THEN ""
    ELSE Recase(SubSeq(s, 1, 1), UpperCase, LowerCase) \o toLowerCase(SubSeq(s, 2, Len(s)))

\* String.prototype.startsWith
startsWith(s, prefix) == Len(s) >= Len(prefix) /\ SubSeq(s, 1, Len(prefix)) = prefix

\* s.replace(/\D/g, '')
RECURSIVE DigitsOf(_)
DigitsOf(s) ==
    IF s = "" THEN ""
    ELSE (IF SubSeq(s, 1, 1) \in Digit THEN SubSeq(s, 1, 1) ELSE "") \o
         DigitsOf(SubSeq(s, 2, Len(s)))

\* Number.prototype.toFixed(2), for the whole numbers the model's results hold
toFixed2(n) == ToString(n) \o ".00"

\* what assigning a value to textContent shows: null and undefined show nothing
TextContent(j) == IF j.t = "null" THEN "" ELSE TemplateText(j)

\* data.<name>, undefined unless data is an object
Field(data, name) == IF data.t = "obj" THEN Member(data.v, name) ELSE JNull

\* a || b
OrElse(a, b) == IF Truthy(a) THEN a ELSE b

\* ------------------------------------------------------- the results page
PlaceholderText == "No data available. Please run a scan."

\* the elements of results.html that loadResultsPage writes: the text of the
\* five summary fields, the rows of #ports-table tbody, the display style of
\* #no-ports-message, whether #rescan-button exists and the click listeners
\* it has
BlankResults ==
    [ targetIp |-> "", openPortsCount |-> "", scanDuration |-> "", protocolUsed |-> "",
      portsScanned |-> "", rows |-> <<>>, noPortsMsg |-> "",
      rescanButton |-> TRUE, listeners |-> 0 ]

\* sessionStorage.getItem; the empty text stands for null (both are falsy)
getItem(store, key) == IF hasItem(store, key) THEN store[key] ELSE <<>>

\* sessionStorage.removeItem
removeItem(store, key) == [k \in DOMAIN store \ {key} |-> store[k]]

\* (data.open_ports || []).length as text
CountText(openPorts) ==
    IF ~Truthy(openPorts) THEN "0"
    ELSE IF openPorts.t \in {"arr", "str"} THEN ToString(Len(openPorts.v))
    ELSE ""

\* data.open_ports.length > 0
HasLength(openPorts) == openPorts.t \in {"arr", "str"} /\ Len(openPorts.v) > 0

\* a record the forEach callback throws on: p is null, or p.protocol or
\* p.state is truthy and has no toUpperCase
RowThrows(p) ==
    \/ p.t = "null"
    \/ Truthy(Field(p, "protocol")) /\ Field(p, "protocol").t # "str"
    \/ Truthy(Field(p, "state")) /\ Field(p, "state").t # "str"

\* the <tr> built for one open-port record
Row(p) ==
    [ port     |-> TextContent(Field(p, "port")),
      protocol |-> toUpperCase(OrElse(Field(p, "protocol"), JStr("tcp")).v),
      state    |-> toUpperCase(OrElse(Field(p, "state"), JStr("unknown")).v),
      class    |-> IF Truthy(Field(p, "state")) /\
                      startsWith(toLowerCase(Field(p, "state").v), "open")
                     THEN "status-open" ELSE "status-closed",
      service  |-> TextContent(OrElse(Field(p, "service"), JStr("N/A"))),
      version  |-> TextContent(OrElse(Field(p, "version"), JStr("N/A"))) ]

\* data.open_ports.forEach(...): the rows of the body afterwards, and whether
\* the callback threw
RECURSIVE appendRows(_, _)
appendRows(records, rows) ==
    IF records = <<>> THEN [rows |-> rows, thrown |-> FALSE]
    ELSE IF RowThrows(Head(records)) THEN [rows |-> rows, thrown |-> TRUE]
    ELSE appendRows(Tail(records), Append(rows, Row(Head(records))))

\* variant: the body keeps the rows it had
clearBodyNot(rows) == rows

\* tbody.innerHTML = ''
clearBody(rows) == <<>>

\* rescanBtn.addEventListener('click', ...)
withListener(dom) ==
    IF dom.rescanButton THEN [dom EXCEPT !.listeners = @ + 1] ELSE dom

\* loadResultsPage: the document after the call. An exception leaves what was
\* written before it and is caught at :146
loadResultsPage(store, dom) ==
    LET text      == getItem(store, ResultKey)
        data      == JSONparse(text)
        openPorts == Field(data, "open_ports")
        protocol  == Field(data, "protocol")
        duration  == Field(data, "scan_duration")
        portsText == OrElse(Field(data, "ports_list"),
                            OrElse(Field(data, "port_mode"), JStr("N/A")))
        upTo101   == [dom EXCEPT
                        !.targetIp = TextContent(OrElse(Field(data, "target_ip"),
                                        OrElse(Field(data, "target"), JStr("N/A")))),
                        !.openPortsCount = CountText(openPorts),
                        !.scanDuration =
                            IF duration.t = "num" THEN toFixed2(duration.v) \o "s"
                            ELSE TextContent(OrElse(duration, JStr("N/A")))]
        upTo114   == [upTo101 EXCEPT
                        !.protocolUsed = toUpperCase(OrElse(protocol, JStr("tcp")).v),
                        !.portsScanned =
                            IF portsText.t = "str" /\ startsWith(portsText.v, "top")
                              THEN "Top " \o (IF DigitsOf(portsText.v) # ""
                                                THEN DigitsOf(portsText.v) ELSE "100")
                                          \o " ports"
                              ELSE TextContent(portsText),
                        !.rows = clearBody(upTo101.rows)]
        filled    == appendRows(openPorts.v, upTo114.rows)
    IN
    IF text = <<>> THEN [dom EXCEPT !.targetIp = PlaceholderText]
    ELSE IF data.t \in {"undecodable", "null"} THEN dom
    ELSE IF Truthy(protocol) /\ protocol.t # "str" THEN upTo101
    ELSE IF Truthy(openPorts) /\ HasLength(openPorts)
      THEN IF openPorts.t # "arr" THEN [upTo114 EXCEPT !.noPortsMsg = "none"]
           ELSE IF filled.thrown
             THEN [upTo114 EXCEPT !.noPortsMsg = "none", !.rows = filled.rows]
           ELSE withListener([upTo114 EXCEPT !.noPortsMsg = "none", !.rows = filled.rows])
      ELSE withListener([upTo114 EXCEPT !.noPortsMsg = "block"])

\* variant: the click listener navigates back and leaves the stored result
rescanClickKeep(store) ==
    [store |-> store, href |-> ScanningPage, effects |-> <<"navigate">>]

\* the re-scan button's click listener
rescanClick(store) ==
    [store |-> removeItem(store, ResultKey), href |-> ScanningPage,
     effects |-> <<"remove", "navigate">>]

\* ------------------------------------------------------------------ state
VARIABLES
    btn,             \* startScanBtn: present, disabled, innerHTML, dataset.originalText
    sessionStorage,  \* window.sessionStorage
    href,            \* the last value assigned to window.location.href
    page,            \* the document that is loaded
    calls,           \* the submitScan calls so far, in call order
    fetches,         \* fetch() calls issued so far
    submits,         \* submit events handled so far
    last,            \* the submit event handled in the latest step, if that was one:
                     \*   form read, alerts raised, payloads handed to submitScan,
                     \*   request bodies posted
    done,            \* the submitScan call ended in the latest step, if one did:
                     \*   its response and effects
    localStorage,    \* window.localStorage
    view,            \* the results document: what loadResultsPage has written
    trail,           \* how far the session is along: a result stored by a submission,
                     \*   rendered, cleared by the re-scan button, the page loaded again
    arg,             \* the text a validator is called with
    ret              \* what the validator returned, "" before the call

vars ==
    <<btn, sessionStorage, href, page, calls, fetches, submits, last, done,
      localStorage, view, trail, arg, ret>>

\* labels the page may give the start button
ButtonLabels == {"Launch Scan"}

NoButton == [present |-> FALSE, disabled |-> FALSE, innerHTML |-> "", originalText |-> ""]

Button(label) ==
    [present |-> TRUE, disabled |-> FALSE, innerHTML |-> label, originalText |-> ""]

\* a result left in the session by an earlier scan
EarlierResult == JObj(<< <<"open_ports", JArr(<<>>)>>, <<"protocol", JStr("udp")>> >>)

NoForm ==
    [ targetInput |-> NoTargetInput, protocol |-> "", portMode |-> NoSelect,
      customPorts |-> NoCustomPorts, terms |-> NoCheckbox ]

NoSubmit ==
    [event |-> FALSE, form |-> NoForm, alerts |-> <<>>, handed |-> <<>>, posted |-> <<>>,
     btnBefore |-> NoButton, storeBefore |-> EmptyStorage]

NoFinish ==
    [id |-> 0, resp |-> NoResponse, alerts |-> <<>>, effects |-> <<>>, issued |-> 0,
     storeBefore |-> EmptyStorage, hrefBefore |-> ""]

\* the start button scanning.html may come with
StartButtons == {NoButton} \cup {Button(l) : l \in ButtonLabels}

Init ==
    /\ btn \in StartButtons
    /\ sessionStorage \in
         {EmptyStorage, setItem(EmptyStorage, ResultKey, JSONstringify(EarlierResult))}
    /\ href = ScanningPage
    /\ page = ScanningPage
    /\ calls = <<>>
    /\ fetches = 0
    /\ submits = 0
    /\ last = NoSubmit
    /\ done = NoFinish
    /\ localStorage = EmptyStorage
    /\ view = BlankResults
    /\ trail = "none"
    /\ arg = <<>>
    /\ ret = ""

InFlight(i) == i \in 1..Len(calls) /\ calls[i].pc \in {"fetch", "json"}

\* ---------------------------------------------------------------- actions
\* the form's submit listener, and submitScan up to its first await
Submit(form) ==
    /\ page = ScanningPage
    /\ submits < MaxSubmits
    /\ submits' = submits + 1
    /\ IF validationAlerts(form) # <<>>
         THEN /\ last' = [event |-> TRUE, form |-> form,
                          alerts |-> validationAlerts(form), handed |-> <<>>,
                          posted |-> <<>>, btnBefore |-> btn, storeBefore |-> sessionStorage]
              /\ UNCHANGED <<btn, calls, fetches>>
         ELSE /\ last' = [event |-> TRUE, form |-> form,
                          alerts |-> <<>>, handed |-> <<buildPayload(form)>>,
                          posted |-> <<requestBody(buildPayload(form))>>,
                          btnBefore |-> btn, storeBefore |-> sessionStorage]
              /\ btn' = busyButton(btn)
              /\ calls' = Append(calls, [pc |-> "fetch", status |-> 0])
              /\ fetches' = fetches + 1
    /\ done' = NoFinish
    /\ UNCHANGED <<sessionStorage, href, page, view, trail, localStorage, arg, ret>>

\* the fetch promise fulfils with a response, whose status is known;
\* resp.json() starts reading the body
FetchResolve(i, status) ==
    /\ i \in 1..Len(calls)
    /\ calls[i].pc = "fetch"
    /\ calls' = [calls EXCEPT ![i] = [pc |-> "json", status |-> status]]
    /\ last' = NoSubmit
    /\ done' = NoFinish
    /\ UNCHANGED <<btn, sessionStorage, href, page, fetches, submits, view, trail, localStorage, arg, ret>>

\* a call runs from a settled promise to its end
Finish(i, resp) ==
    LET exit == submitScanExit(resp, sessionStorage, btn) IN
    /\ sessionStorage' = exit.out.store
    /\ href' = IF exit.out.href # "" THEN exit.out.href ELSE href
    /\ btn' = exit.btn
    /\ fetches' = fetches + exit.out.issued
    /\ calls' = [calls EXCEPT ![i] =
                   [pc |-> IF exit.out.issued > 0 THEN "fetch" ELSE "done", status |-> 0]]
    /\ done' = [id |-> i, resp |-> resp, alerts |-> exit.out.alerts,
                effects |-> exit.effects, issued |-> exit.out.issued,
                storeBefore |-> sessionStorage, hrefBefore |-> href]
    /\ last' = NoSubmit
    /\ trail' = IF exit.out.href = ResultsPage THEN "stored" ELSE trail
    /\ UNCHANGED <<page, submits, view, localStorage, arg, ret>>

\* the fetch promise rejects: no response was received
FetchReject(i) ==
    /\ i \in 1..Len(calls)
    /\ calls[i].pc = "fetch"
    /\ Finish(i, Rejected)

\* the resp.json() promise settles: the body was decoded, or was not JSON
JsonSettle(i, body) ==
    /\ i \in 1..Len(calls)
    /\ calls[i].pc = "json"
    /\ Finish(i, Response(calls[i].status, body))

\* the bodies the response call i is reading may turn out to have
BodiesOf(i) ==
    IF i \in 1..Len(calls) /\ calls[i].pc = "json"
      THEN {Bodies(calls[i].status)[b] : b \in 1..Len(Bodies(calls[i].status))}
      ELSE {}

\* the assigned location is loaded: the document that was shown and its
\* pending calls are gone
Unload ==
    /\ href # page
    /\ page' = href
    /\ btn' \in IF href = ScanningPage THEN StartButtons ELSE {NoButton}
    /\ view' = BlankResults
    /\ calls' = [i \in 1..Len(calls) |->
                   IF InFlight(i) THEN [pc |-> "unloaded", status |-> 0]
                   ELSE calls[i]]
    /\ last' = NoSubmit
    /\ done' = NoFinish
    /\ UNCHANGED <<sessionStorage, href, fetches, submits, trail, localStorage, arg, ret>>

\* results.html calls window.loadResultsPage
LoadResultsPage ==
    /\ page = ResultsPage
    /\ view.listeners < MaxLoads
    /\ view' = loadResultsPage(sessionStorage, view)
    /\ trail' = IF trail = "stored" /\ hasItem(sessionStorage, ResultKey) THEN "rendered"
                ELSE IF trail = "cleared" THEN "reloaded"
                ELSE trail
    /\ last' = NoSubmit
    /\ done' = NoFinish
    /\ UNCHANGED <<btn, sessionStorage, href, page, calls, fetches, submits, localStorage, arg, ret>>

\* a click on #rescan-button: every listener loadResultsPage has added runs,
\* each to the same effect
RescanClick ==
    /\ page = ResultsPage
    /\ view.listeners > 0
    /\ sessionStorage' = rescanClick(sessionStorage).store
    /\ href' = rescanClick(sessionStorage).href
    /\ trail' = IF trail = "rendered" THEN "cleared" ELSE trail
    /\ last' = NoSubmit
    /\ done' = NoFinish
    /\ UNCHANGED <<btn, page, calls, fetches, submits, view, localStorage, arg, ret>>

\* the user opens results.html without going through a scan
OpenResults ==
    /\ page = ScanningPage
    /\ href = ScanningPage
    /\ href' = ResultsPage
    /\ last' = NoSubmit
    /\ done' = NoFinish
    /\ UNCHANGED <<btn, sessionStorage, page, calls, fetches, submits, view, trail, localStorage, arg, ret>>

Next ==
    \/ \E form \in Forms : Submit(form)
    \/ \E i \in 1..MaxSubmits, status \in Statuses : FetchResolve(i, status)
    \/ \E i \in 1..MaxSubmits : FetchReject(i)
    \/ \E i \in 1..MaxSubmits : \E body \in BodiesOf(i) : JsonSettle(i, body)
    \/ Unload

Spec == Init /\ [][Next]_vars

\* every fetch settles, and so does every body read
FairSpec ==
    /\ Spec
    /\ \A i \in 1..MaxSubmits :
          /\ WF_vars(FetchReject(i) \/ \E status \in Statuses : FetchResolve(i, status))
          /\ WF_vars(\E body \in BodiesOf(i) : JsonSettle(i, body))

\* the whole site: the scanning page, the results page and the way between;
\* an earlier scan of the session may have left a result in the storage
SiteInit ==
    /\ btn \in StartButtons
    /\ sessionStorage \in
         {EmptyStorage} \cup
         {setItem(EmptyStorage, ResultKey, JSONstringify(r)) : r \in
            { EarlierResult,
              JObj(<< <<"target_ip", JStr("10.0.0.5")>>,
                      <<"open_ports",
                        JArr(<< JObj(<< <<"port", JNum(22)>>, <<"protocol", JStr("tcp")>>,
                                        <<"state", JStr("open")>>, <<"service", JStr("ssh")>>,
                                        <<"version", JStr("")>> >>),
                                JObj(<< <<"port", JNum(53)>>, <<"state", JStr("Open|filtered")>> >>),
                                JObj(<< <<"port", JNum(80)>>, <<"protocol", JStr("tcp")>>,
                                        <<"state", JStr("filtered")>> >>) >>)>>,
                      <<"scan_duration", JNum(2)>>,
                      <<"protocol", JStr("tcp")>>,
                      <<"port_mode", JStr("top")>> >>),
              JObj(<< <<"target", JStr("host.example")>>,
                      <<"open_ports", JArr(<< JObj(<< <<"port", JNum(443)>> >>) >>)>>,
                      <<"scan_duration", JStr("n/a")>>,
                      <<"ports_list", JStr("1-1024")>> >>) }}
    /\ href = ScanningPage
    /\ page = ScanningPage
    /\ calls = <<>>
    /\ fetches = 0
    /\ submits = 0
    /\ last = NoSubmit
    /\ done = NoFinish
    /\ localStorage = EmptyStorage
    /\ view = BlankResults
    /\ trail = "none"
    /\ arg = <<>>
    /\ ret = ""

SiteNext ==
    \/ \E form \in Forms : Submit(form)
    \/ \E i \in 1..MaxSubmits, status \in Statuses : FetchResolve(i, status)
    \/ \E i \in 1..MaxSubmits : FetchReject(i)
    \/ \E i \in 1..MaxSubmits : \E body \in BodiesOf(i) : JsonSettle(i, body)
    \/ Unload
    \/ LoadResultsPage
    \/ RescanClick
    \/ OpenResults

SiteSpec == SiteInit /\ [][SiteNext]_vars

\* -------------------------------------------------- the validators alone
\* the variables of a scan session, which a validator leaves alone
session ==
    <<btn, sessionStorage, href, page, calls, fetches, submits, last, done,
      localStorage, view, trail>>

\* no document is loaded and nothing is stored
NoSession ==
    /\ btn = NoButton
    /\ sessionStorage = EmptyStorage
    /\ href = ""
    /\ page = ""
    /\ calls = <<>>
    /\ fetches = 0
    /\ submits = 0
    /\ last = NoSubmit
    /\ done = NoFinish
    /\ localStorage = EmptyStorage
    /\ view = BlankResults
    /\ trail = "none"

\* every text of at most n characters of the alphabet
TextsUpTo(alphabet, n) == UNION {[1..k -> alphabet] : k \in 0..n}

\* the texts validateTarget is tried on: every short text over a hex letter,
\* another letter, a digit, the punctuation the expression names, a blank
\* and a character it does not name; and some longer ones
TargetInit ==
    /\ NoSession
    /\ arg \in TextsUpTo({"a", "g", "1", ".", "-", ":", "[", "]", " ", "!"}, MaxTargetLen)
               \cup
               { <<"1", ".", "1", ".", "1", ".", "1">>,
                 <<"1", ".", "1", ".", "1", ".", "1", " ">>,
                 <<"1", "2", "3", "4", ".", "1", ".", "1", ".", "1">>,
                 <<"[", ":", ":", "1", "]">>,
                 <<"\t", "a", ".", "b">>,
                 <<"[", ":", ":", "1", "]", "\n">> }
    /\ ret = ""

\* validateTarget is called with the text
ValidateTarget ==
    /\ ret = ""
    /\ ret' = validateTarget(arg)
    /\ UNCHANGED <<arg, session>>

TargetSpec == TargetInit /\ [][ValidateTarget]_vars

\* the texts validatePorts is tried on: every short text over a digit, the
\* separators, a blank and a character the expression does not name; and
\* some longer ones
PortsInit ==
    /\ NoSession
    /\ arg \in TextsUpTo({"1", ",", "-", " ", "x"}, MaxPortsLen)
               \cup
               { <<"2", "1", ",", "8", "0", ",", "4", "4", "3", "-", "4", "4", "5">>,
                 <<"2", "1", ",", " ", "8", "0", " ", ",", " ", "4", "4", "3", "-", "4", "4", "5">>,
                 <<"2", "1", ",", ",", "8", "0">>,
                 <<"4", "4", "5", "-", "4", "4", "3">>,
                 <<"9", "9", "9", "9", "9">>,
                 <<"2", "1", "\t", ",", "\n", "8", "0">>,
                 <<"8", " ", "0">> }
    /\ ret = ""

\* validatePorts is called with the text
ValidatePorts ==
    /\ ret = ""
    /\ ret' = validatePorts(arg)
    /\ UNCHANGED <<arg, session>>

PortsSpec == PortsInit /\ [][ValidatePorts]_vars

\* validateTarget of script1.js; the alternatives of its expression are those
\* of script.js in another order
validateTarget1(target) ==
    IF Trim(target) = <<>> THEN "Target IP or Host is required."
    ELSE IF ~(MatchHostname(target) \/ MatchDottedQuad(target) \/ MatchBracketedV6(target))
      THEN "Invalid format. Please enter a valid IP or hostname."
    ELSE NoError

\* validatePorts of script1.js: ^(\d+(?:-\d+)?)(,\s*\d+(?:-\d+)?)*$ is tested
\* on ports.replace(/\s/g, ''), a text without white space, where \s* matches
\* nothing
validatePorts1(ports) ==
    IF ports = <<>> THEN "Custom port list is required."
    ELSE IF ~portRegex(SelectSeq(ports, IsNotBlank)) THEN "Invalid port list. Use comma-separated ports or ranges (e.g., 21, 80, 443-445)."
    ELSE NoError

\* the form as script1.js's listener finds it: the value of #target-ip, the
\* value of the checked protocol input ("" when none is checked), the value
\* of #port-mode, the value of #custom-ports and whether #terms-agree is
\* checked
Forms1 ==
    [ target      : {<<"a">>, <<" ">>, <<"a", " ">>},
      protocol    : {"tcp", ""},
      portMode    : {"top100", "custom"},
      customPorts : {<<>>, <<"1">>, <<"1", ",", " ", "2">>, <<"x">>},
      termsAgree  : BOOLEAN ]

\* the messages displayError is left showing, in the order of the checks
errors1(form) ==
    (IF validateTarget1(form.target) # NoError
       THEN <<validateTarget1(form.target)>> ELSE <<>>) \o
    (IF form.portMode = "custom" /\ validatePorts1(form.customPorts) # NoError
       THEN <<validatePorts1(form.customPorts)>> ELSE <<>>) \o
    (IF ~form.termsAgree THEN <<"You must agree to the terms of service.">> ELSE <<>>)

\* the scanData objects the listener hands to submitScan: none when a check
\* failed, none when no protocol input is checked (a TypeError at :168)
handed1(form) ==
    IF errors1(form) # <<>> \/ form.protocol = "" THEN <<>>
    ELSE << [ target    |-> form.target,
              protocol  |-> form.protocol,
              port_mode |-> form.portMode,
              ports     |-> IF form.portMode = "custom" THEN form.customPorts
                                               ELSE Chars(form.portMode) ] >>

\* the catch block
Caught1(store) ==
    [alerts |-> <<"Network Error: Could not connect to the Python backend. Ensure 'app.py' is running on http://127.0.0.1:5000.">>, store |-> store, href |-> ""]

\* the try block from the point the fetch has settled, with its catch
submitScanTry1(resp, store) ==
    IF resp.kind = "rejected" THEN Caught1(store)
    ELSE IF resp.body.t = "undecodable" THEN Caught1(store)
    ELSE IF resp.ok THEN
        [alerts |-> <<>>, store |-> setItem(store, ResultKey, JSONstringify(resp.body)),
         href |-> ResultsPage]
    ELSE IF resp.body.t = "null" THEN Caught1(store)
    ELSE [alerts |-> << ScanErrorMsg(IF Truthy(ErrorField(resp.body))
                                       THEN TemplateText(ErrorField(resp.body))
                                       ELSE "An unknown error occurred during scanning.") >>,
          store |-> store, href |-> ""]

\* the submit listener, and submitScan up to its first await; without the
\* start button submitScan throws at :85 and no request is made
Submit1(form) ==
    /\ page = ScanningPage
    /\ submits < MaxSubmits
    /\ submits' = submits + 1
    /\ last' = [event |-> TRUE, form |-> form, alerts |-> errors1(form),
                handed |-> handed1(form),
                posted |-> IF btn.present
                             THEN [k \in 1..Len(handed1(form)) |-> requestBody(handed1(form)[k])]
                             ELSE <<>>,
                btnBefore |-> btn, storeBefore |-> localStorage]
    /\ IF handed1(form) # <<>> /\ btn.present
         THEN /\ btn' = [btn EXCEPT !.disabled = TRUE,
                                      !.innerHTML = "Scanning... Please wait (up to 120s)"]
              /\ calls' = Append(calls, [pc |-> "fetch", status |-> 0])
              /\ fetches' = fetches + 1
         ELSE UNCHANGED <<btn, calls, fetches>>
    /\ done' = NoFinish
    /\ UNCHANGED <<sessionStorage, localStorage, href, page, view, trail, arg, ret>>

\* the fetch promise fulfils; response.json() starts reading the body
FetchResolve1(i, status) ==
    /\ i \in 1..Len(calls)
    /\ calls[i].pc = "fetch"
    /\ calls' = [calls EXCEPT ![i] = [pc |-> "json", status |-> status]]
    /\ last' = NoSubmit
    /\ done' = NoFinish
    /\ UNCHANGED <<btn, sessionStorage, localStorage, href, page, fetches, submits,
                   view, trail, arg, ret>>

\* a call runs from a settled promise to its end
Finish1(i, resp) ==
    LET out == submitScanTry1(resp, localStorage) IN
    /\ localStorage' = out.store
    /\ href' = IF out.href # "" THEN out.href ELSE href
    /\ btn' = [btn EXCEPT !.disabled = FALSE, !.innerHTML = DefaultLabel]
    /\ calls' = [calls EXCEPT ![i] = [pc |-> "done", status |-> 0]]
    /\ done' = [id |-> i, resp |-> resp, alerts |-> out.alerts,
                effects |-> <<>>, issued |-> 0,
                storeBefore |-> localStorage, hrefBefore |-> href]
    /\ last' = NoSubmit
    /\ trail' = IF out.href = ResultsPage THEN "stored" ELSE trail
    /\ UNCHANGED <<sessionStorage, page, fetches, submits, view, arg, ret>>

\* the fetch promise rejects
FetchReject1(i) ==
    /\ i \in 1..Len(calls)
    /\ calls[i].pc = "fetch"
    /\ Finish1(i, Rejected)

\* the response.json() promise settles
JsonSettle1(i, body) ==
    /\ i \in 1..Len(calls)
    /\ calls[i].pc = "json"
    /\ Finish1(i, Response(calls[i].status, body))

\* the assigned location is loaded
Unload1 ==
    /\ href # page
    /\ page' = href
    /\ btn' = NoButton
    /\ calls' = [i \in 1..Len(calls) |->
                   IF InFlight(i) THEN [pc |-> "unloaded", status |-> 0]
                   ELSE calls[i]]
    /\ last' = NoSubmit
    /\ done' = NoFinish
    /\ UNCHANGED <<sessionStorage, localStorage, href, fetches, submits, view, trail,
                   arg, ret>>

Init1 ==
    /\ btn \in StartButtons
    /\ sessionStorage = EmptyStorage
    /\ localStorage \in
         {EmptyStorage, setItem(EmptyStorage, ResultKey, JSONstringify(EarlierResult))}
    /\ href = ScanningPage
    /\ page = ScanningPage
    /\ calls = <<>>
    /\ fetches = 0
    /\ submits = 0
    /\ last = NoSubmit
    /\ done = NoFinish
    /\ view = BlankResults
    /\ trail = "none"
    /\ arg = <<>>
    /\ ret = ""

Next1 ==
    \/ \E form \in Forms1 : Submit1(form)
    \/ \E i \in 1..MaxSubmits, status \in Statuses : FetchResolve1(i, status)
    \/ \E i \in 1..MaxSubmits : FetchReject1(i)
    \/ \E i \in 1..MaxSubmits : \E body \in BodiesOf(i) : JsonSettle1(i, body)
    \/ Unload1

Spec1 == Init1 /\ [][Next1]_vars

\* /^[\d\s,-]+$/
portsPattern(s) == Len(s) >= 1 /\ AllIn(s, Digit \cup WhiteSpace \cup {",", "-"})

\* #scanning-form as validateForm and handleScanSubmission find it: the value
\* of #ip-host, the value of the checked protocol input ("" when none is
\* checked), the value of #port-select, the value of #ports-list and whether
\* #terms-agreement is checked
GeminForms ==
    [ ipHost     : {<<"a">>, <<" ">>},
      protocol   : {"tcp", ""},
      portSelect : {"top_100", "custom"},
      portsList  : {<<>>, <<"1", " ", "2">>, <<"x">>},
      terms      : BOOLEAN ]

\* validateForm: the messages it displays; the form is valid when none
validateForm(form) ==
    (IF Trim(form.ipHost) = <<>> THEN <<"Target IP or Hostname is required.">> ELSE <<>>) \o
    (IF form.portSelect = "custom"
       THEN IF Trim(form.portsList) = <<>> THEN <<"Custom port list cannot be empty.">>
            ELSE IF ~portsPattern(Trim(form.portsList)) THEN <<"Invalid port format. Use numbers, commas, hyphens, or spaces.">>
            ELSE <<>>
       ELSE <<>>) \o
    (IF ~form.terms THEN <<"You must agree to the Terms of Service.">> ELSE <<>>)

\* the scanData object handleScanSubmission posts: none when the form is not
\* valid, when no protocol input is checked (TypeError at :144) or when
\* there is no start button (TypeError at :156)
geminScanData(form, b) ==
    IF validateForm(form) # <<>> \/ form.protocol = "" \/ ~b.present THEN <<>>
    ELSE << [ target_ip  |-> Trim(form.ipHost),
              protocol   |-> form.protocol,
              ports_list |-> IF form.portSelect = "custom"
                               THEN Trim(form.portsList)
                               ELSE Chars(form.portSelect) ] >>

\* the catch block of handleScanSubmission
GeminCaught(store) ==
    [alerts |-> <<"Network Error: Could not connect to the Python backend. Ensure 'app.py' is running on http://127.0.0.1:5000.">>, store |-> store, href |-> ""]

\* the try block of handleScanSubmission from the point the fetch has
\* settled, with its catch: what is alerted, sessionStorage afterwards, the
\* location assigned
handleScanSubmissionTry(resp, store) ==
    IF resp.kind = "rejected" THEN GeminCaught(store)
    ELSE IF ~resp.ok THEN GeminCaught(store)
    ELSE IF resp.body.t \in {"undecodable", "null"} THEN GeminCaught(store)
    ELSE IF Truthy(ErrorField(resp.body))
      THEN [alerts |-> <<ScanErrorMsg(TemplateText(ErrorField(resp.body)))>>,
            store |-> store, href |-> ""]
    ELSE [alerts |-> <<>>,
          store |-> setItem(store, ResultKey, JSONstringify(resp.body)),
          href |-> ResultsPage]

\* a call of handleScanSubmission carries its originalText; a call of the
\* second initializer's submitScan has no such variable
IsFirstPath(i) == i \in 1..Len(calls) /\ "originalText" \in DOMAIN calls[i]

\* handleScanSubmission up to its first await
HandleScanSubmission(form) ==
    /\ page = ScanningPage
    /\ submits < MaxSubmits
    /\ submits' = submits + 1
    /\ last' = [event |-> TRUE, form |-> form, alerts |-> validateForm(form),
                handed |-> geminScanData(form, btn),
                posted |-> <<>>,
                btnBefore |-> btn, storeBefore |-> sessionStorage]
    /\ IF geminScanData(form, btn) # <<>>
         THEN /\ btn' = [btn EXCEPT !.disabled = TRUE, !.innerHTML = "<i data-lucide=\"loader\" class=\"animate-spin mr-2\"></i> Scanning..."]
              /\ calls' = Append(calls, [pc |-> "fetch", status |-> 0,
                                         originalText |-> btn.innerHTML])
              /\ fetches' = fetches + 1
         ELSE UNCHANGED <<btn, calls, fetches>>
    /\ done' = NoFinish
    /\ UNCHANGED <<sessionStorage, localStorage, href, page, view, trail, arg, ret>>

\* a call of handleScanSubmission runs from a settled promise to its end
GeminFinish(i, resp) ==
    LET out == handleScanSubmissionTry(resp, sessionStorage) IN
    /\ sessionStorage' = out.store
    /\ href' = IF out.href # "" THEN out.href ELSE href
    /\ btn' = [btn EXCEPT !.disabled = FALSE, !.innerHTML = calls[i].originalText]
    /\ calls' = [calls EXCEPT ![i] = [pc |-> "done", status |-> 0,
                                      originalText |-> calls[i].originalText]]
    /\ done' = [id |-> i, resp |-> resp, alerts |-> out.alerts,
                effects |-> <<>>, issued |-> 0,
                storeBefore |-> sessionStorage, hrefBefore |-> href]
    /\ last' = NoSubmit
    /\ trail' = IF out.href = ResultsPage THEN "stored" ELSE trail
    /\ UNCHANGED <<localStorage, page, fetches, submits, view, arg, ret>>

\* the fetch promise fulfils: a status that is not ok is thrown at once,
\* otherwise response.json() starts reading the body
GeminFetchResolve(i, status) ==
    /\ IsFirstPath(i)
    /\ calls[i].pc = "fetch"
    /\ IF IsOk(status)
         THEN /\ calls' = [calls EXCEPT ![i].pc = "json", ![i].status = status]
              /\ last' = NoSubmit
              /\ done' = NoFinish
              /\ UNCHANGED <<btn, sessionStorage, localStorage, href, page, fetches,
                             submits, view, trail, arg, ret>>
         ELSE GeminFinish(i, Response(status, Undecodable))

\* the fetch promise rejects
GeminFetchReject(i) ==
    /\ IsFirstPath(i)
    /\ calls[i].pc = "fetch"
    /\ GeminFinish(i, Rejected)

\* the response.json() promise settles
GeminJsonSettle(i, body) ==
    /\ IsFirstPath(i)
    /\ calls[i].pc = "json"
    /\ GeminFinish(i, Response(calls[i].status, body))

\* the second initializer's submit listener and its submitScan, which are
\* script1.js's
SecondSubmit(form) == Submit1(form)

SecondFetchResolve(i, status) == i \in 1..Len(calls) /\ ~IsFirstPath(i) /\ FetchResolve1(i, status)

SecondFetchReject(i) == i \in 1..Len(calls) /\ ~IsFirstPath(i) /\ FetchReject1(i)

SecondJsonSettle(i, body) == i \in 1..Len(calls) /\ ~IsFirstPath(i) /\ JsonSettle1(i, body)

\* a complete result: every field loadResultsPage reads is there
FullResult ==
    JObj(<< <<"target_ip", JStr("10.0.0.5")>>,
            <<"open_ports",
              JArr(<< JObj(<< <<"port", JNum(22)>>, <<"protocol", JStr("tcp")>>,
                              <<"state", JStr("open")>>, <<"service", JStr("ssh")>> >>) >>)>>,
            <<"scan_duration", JNum(2)>>,
            <<"protocol", JStr("tcp")>>,
            <<"ports_list", JStr("top_100")>> >>)

\* the bodies the backend is taken to answer with, by status
GeminBodies(status) ==
    IF status = 200
      THEN << Undecodable,
              JObj(<< <<"error", JStr("host unreachable")>> >>),
              ExampleResult,
              FullResult >>
      ELSE << Undecodable, JObj(<< <<"error", JStr("host unreachable")>> >>) >>

GeminBodiesOf(i) ==
    IF i \in 1..Len(calls) /\ calls[i].pc = "json"
      THEN {GeminBodies(calls[i].status)[b] : b \in 1..Len(GeminBodies(calls[i].status))}
      ELSE {}

\* a record whose row template throws: port is null, or port.protocol or
\* port.state has no toUpperCase
GeminRowThrows(p) ==
    \/ p.t = "null"
    \/ Field(p, "protocol").t # "str"
    \/ Field(p, "state").t # "str"

GeminRow(p) ==
    [ port     |-> TemplateText(Field(p, "port")),
      protocol |-> toUpperCase(Field(p, "protocol").v),
      state    |-> toUpperCase(Field(p, "state").v),
      class    |-> "status-open",
      service  |-> TemplateText(OrElse(Field(p, "service"), JStr("N/A"))),
      version  |-> TemplateText(OrElse(Field(p, "version"), JStr("N/A"))) ]

\* resultsData.open_ports.forEach(...): insertRow comes before the template
\* is evaluated, so a record that throws leaves an empty row
RECURSIVE geminInsertRows(_, _)
geminInsertRows(records, rows) ==
    IF records = <<>> THEN [rows |-> rows, thrown |-> FALSE]
    ELSE IF GeminRowThrows(Head(records))
      THEN [rows |-> Append(rows, [port |-> "", protocol |-> "", state |-> "", class |-> "",
                                  service |-> "", version |-> ""]), thrown |-> TRUE]
    ELSE geminInsertRows(Tail(records), Append(rows, GeminRow(Head(records))))

\* loadResultsPage of scriptgemin.js: the document after the call. Nothing
\* catches an exception: what was written before it stays
geminLoadResultsPage(store, dom) ==
    LET text      == getItem(store, ResultKey)
        data      == IF text = <<>> THEN JNull ELSE JSONparse(text)
        openPorts == Field(data, "open_ports")
        duration  == Field(data, "scan_duration")
        protocol  == Field(data, "protocol")
        portsList == Field(data, "ports_list")
        at220     == [dom EXCEPT !.targetIp = TextContent(Field(data, "target_ip"))]
        at223     == [at220 EXCEPT !.openPortsCount = CountText(openPorts)]
        at224     == [at223 EXCEPT !.scanDuration = toFixed2(duration.v) \o "s"]
        at225     == [at224 EXCEPT !.protocolUsed = toUpperCase(protocol.v)]
        at237     == [at225 EXCEPT
                        !.portsScanned = IF startsWith(portsList.v, "top_")
                                           THEN "Top " \o Join(Split(Chars(portsList.v), "_")[2]) \o " Ports"
                                           ELSE portsList.v,
                        !.rows = <<>>]
        filled    == geminInsertRows(openPorts.v, <<>>)
    IN
    IF data.t = "undecodable" THEN dom
    ELSE IF ~Truthy(data) THEN [dom EXCEPT !.targetIp = PlaceholderText]
    ELSE IF ~Truthy(Field(data, "target_ip")) THEN dom
    ELSE IF openPorts.t = "null" THEN at220
    ELSE IF duration.t # "num" THEN at223
    ELSE IF protocol.t # "str" THEN at224
    ELSE IF portsList.t # "str" THEN at225
    ELSE IF Truthy(openPorts) /\ HasLength(openPorts)
      THEN IF openPorts.t # "arr" THEN [at237 EXCEPT !.noPortsMsg = "none"]
           ELSE IF filled.thrown
             THEN [at237 EXCEPT !.noPortsMsg = "none", !.rows = filled.rows]
           ELSE withListener([at237 EXCEPT !.noPortsMsg = "none", !.rows = filled.rows])
      ELSE withListener([at237 EXCEPT !.noPortsMsg = "block"])

\* the assigned location is loaded
GeminUnload ==
    /\ href # page
    /\ page' = href
    /\ btn' \in IF href = ScanningPage THEN StartButtons ELSE {NoButton}
    /\ view' = BlankResults
    /\ calls' = [i \in 1..Len(calls) |->
                   IF InFlight(i) THEN [calls[i] EXCEPT !.pc = "unloaded"] ELSE calls[i]]
    /\ last' = NoSubmit
    /\ done' = NoFinish
    /\ UNCHANGED <<sessionStorage, localStorage, href, fetches, submits, trail, arg, ret>>

\* results.html calls loadResultsPage
GeminLoadResultsPage ==
    /\ page = ResultsPage
    /\ view.listeners < MaxLoads
    /\ view' = geminLoadResultsPage(sessionStorage, view)
    /\ trail' = IF trail = "stored" THEN "rendered"
                ELSE IF trail = "cleared" THEN "reloaded"
                ELSE trail
    /\ last' = NoSubmit
    /\ done' = NoFinish
    /\ UNCHANGED <<btn, sessionStorage, localStorage, href, page, calls, fetches,
                   submits, arg, ret>>

\* a click on #rescan-button
GeminRescanClick ==
    /\ page = ResultsPage
    /\ view.listeners > 0
    /\ sessionStorage' = removeItem(sessionStorage, ResultKey)
    /\ href' = ScanningPage
    /\ trail' = IF trail = "rendered" THEN "cleared" ELSE trail
    /\ last' = NoSubmit
    /\ done' = NoFinish
    /\ UNCHANGED <<btn, localStorage, page, calls, fetches, submits, view, arg, ret>>

GeminInit ==
    /\ btn \in StartButtons
    /\ sessionStorage \in
         {EmptyStorage, setItem(EmptyStorage, ResultKey, JSONstringify(
          JObj(<< <<"target_ip", JStr("host.example")>>,
          <<"open_ports", JArr(<<>>)>>,
          <<"scan_duration", JNum(1)>>,
          <<"protocol", JStr("udp")>>,
          <<"ports_list", JStr("1-1024")>> >>)))}
    /\ localStorage = EmptyStorage
    /\ href = ScanningPage
    /\ page = ScanningPage
    /\ calls = <<>>
    /\ fetches = 0
    /\ submits = 0
    /\ last = NoSubmit
    /\ done = NoFinish
    /\ view = BlankResults
    /\ trail = "none"
    /\ arg = <<>>
    /\ ret = ""

GeminNext ==
    \/ \E form \in GeminForms : HandleScanSubmission(form)
    \/ \E i \in 1..MaxSubmits, status \in Statuses : GeminFetchResolve(i, status)
    \/ \E i \in 1..MaxSubmits : GeminFetchReject(i)
    \/ \E i \in 1..MaxSubmits : \E body \in GeminBodiesOf(i) : GeminJsonSettle(i, body)
    \/ \E form \in Forms1 : SecondSubmit(form)
    \/ \E i \in 1..MaxSubmits, status \in Statuses : SecondFetchResolve(i, status)
    \/ \E i \in 1..MaxSubmits : SecondFetchReject(i)
    \/ \E i \in 1..MaxSubmits : \E body \in GeminBodiesOf(i) : SecondJsonSettle(i, body)
    \/ GeminUnload
    \/ GeminLoadResultsPage
    \/ GeminRescanClick

GeminSpec == GeminInit /\ [][GeminNext]_vars

TypeOK ==
    /\ btn.present \in BOOLEAN
    /\ fetches \in 0..MaxSubmits
    /\ submits \in 0..MaxSubmits
    /\ page \in {ScanningPage, ResultsPage}

\* ----------------------------------------------------------------- claims
Handed == {last.handed[k] : k \in 1..Len(last.handed)}

\* C1: every payload the submit handler hands to submitScan with a port mode
\* other than 'custom' has an empty ports field, whatever the custom-port
\* field holds.
C1_PortsEmptyUnlessCustom ==
    \A p \in Handed : p.port_mode # "custom" => p.ports = <<>>

\* C1 happens: a payload was handed on with a non-custom mode while the
\* custom-port field still held text
C1_LeftoverIgnored ==
    /\ last.event
    /\ \E p \in Handed : p.port_mode # "custom"
    /\ last.form.customPorts.present
    /\ Trim(last.form.customPorts.value) # <<>>

\* C2: every payload handed to submitScan with port mode 'custom' has a ports
\* field that is non-empty and, as sent, matches the port-list grammar.
C2_CustomPortsWellFormedAsSent ==
    \A p \in Handed : p.port_mode = "custom" => p.ports # <<>> /\ portRegex(p.ports)

\* C3: submitScan disables the button on entry, only the end of a call
\* enables it again, every call that ends (whatever the outcome of its fetch)
\* ends with the button enabled, and, the fetch and the body read settling,
\* whenever a call is in flight a state follows where none is and the button
\* is enabled.
Ended(i) == InFlight(i) /\ calls'[i].pc = "done"

C4_AtMostOneInFlight ==
    Cardinality({i \in 1..Len(calls) : InFlight(i)}) <= 1

Effects == {done.effects[k] : k \in 1..Len(done.effects)}

Before(a, b) ==
    \E i, j \in 1..Len(done.effects) : i < j /\ done.effects[i] = a /\ done.effects[j] = b

Succeeded ==
    /\ done.id # 0
    /\ done.resp.kind = "response"
    /\ done.resp.ok
    /\ done.resp.body.t # "undecodable"

Navigated == "navigate" \in Effects \/ (done.id # 0 /\ href # done.hrefBefore)

\* C5: a call that received a success status and a decodable body leaves the
\* text of that body under 'scanResults' in session storage and has then
\* assigned the results page to the location, the store first; a call that
\* assigns the location is such a call.
C5_SuccessStoredThenNavigated ==
    /\ Succeeded =>
          /\ hasItem(sessionStorage, ResultKey)
          /\ sessionStorage[ResultKey] = JSONstringify(done.resp.body)
          /\ href = ResultsPage
          /\ Before("store", "navigate")
    /\ Navigated => Succeeded /\ Before("store", "navigate")

\* C5 happens: a success response replaced what the session held before
C5_StoredAndNavigated ==
    /\ Succeeded
    /\ done.resp.body = ExampleResult
    /\ hasItem(done.storeBefore, ResultKey)
    /\ href = ResultsPage

HasMember(members, name) == \E k \in 1..Len(members) : members[k][1] = name

BackendError ==
    /\ done.id # 0
    /\ done.resp.kind = "response"
    /\ ~done.resp.ok
    /\ done.resp.body.t = "obj"
    /\ HasMember(done.resp.body.v, "error")

ErrorText == Member(done.resp.body.v, "error").v

QuietFailure ==
    /\ sessionStorage = done.storeBefore
    /\ href = done.hrefBefore
    /\ "navigate" \notin Effects
    /\ "store" \notin Effects
    /\ btn.present => ~btn.disabled

BackendMessages ==
    IF done.resp.body.t = "obj" /\ HasMember(done.resp.body.v, "error")
      THEN {ScanErrorMsg(ErrorText), ScanErrorMsg(StatusMsg(done.resp.status))}
      ELSE {ScanErrorMsg(StatusMsg(done.resp.status))}

\* C7: when a response was received and it is a success status with an
\* undecodable body or a non-success status, the one message alerted is the
\* backend-error message and the location is not assigned; the
\* cannot-reach-backend message is alerted only when no response was received.
C7_BackendMessageForEveryResponse ==
    done.id # 0 =>
      /\ (done.resp.kind = "response"
            /\ (~done.resp.ok \/ done.resp.body.t = "undecodable"))
           => /\ Len(done.alerts) = 1
              /\ done.alerts[1] \in BackendMessages
              /\ ~Navigated
      /\ (\E k \in 1..Len(done.alerts) : done.alerts[k] = NetworkErrorMsg)
           => done.resp.kind = "rejected"

\* C8: a rejected fetch ends its call with the transport message alerted, the
\* storage and the location as before, the button enabled and no fetch
\* issued; and there is one fetch per submitScan call.
C8_TransportFailureNoRetry ==
    /\ fetches = Len(calls)
    /\ (done.id # 0 /\ done.resp.kind = "rejected") =>
          /\ done.alerts = <<NetworkErrorMsg>>
          /\ QuietFailure
          /\ done.issued = 0
          /\ calls[done.id].pc = "done"

\* C8 happens: a fetch was rejected while the session held a result
C8_RejectedFetch ==
    /\ done.id # 0
    /\ done.resp.kind = "rejected"
    /\ btn.present
    /\ hasItem(sessionStorage, ResultKey)

TargetFails == validateTarget(readTarget(last.form)) # NoError

PortsFail ==
    readPortMode(last.form) = "custom" /\ validatePorts(readPorts(last.form)) # NoError

TermsFail == last.form.terms.present /\ ~last.form.terms.checked

\* C9: a submit event with a failing check raises exactly one alert, that of
\* the first failing check in the order target, custom ports (custom mode
\* only), agreement; it hands nothing to submitScan and leaves the button and
\* the storage as they were.
C9_FirstFailureOnly ==
    (last.event /\ (TargetFails \/ PortsFail \/ TermsFail)) =>
      /\ Len(last.alerts) = 1
      /\ TargetFails => last.alerts[1] = validateTarget(readTarget(last.form))
      /\ (~TargetFails /\ PortsFail) => last.alerts[1] = validatePorts(readPorts(last.form))
      /\ (~TargetFails /\ ~PortsFail) => last.alerts[1] = AgreementRequiredMsg
      /\ last.handed = <<>>
      /\ last.posted = <<>>
      /\ btn = last.btnBefore
      /\ sessionStorage = last.storeBefore

\* C9 happens: two checks fail and the first is the one reported
C9_PortsBeforeTerms ==
    /\ last.event
    /\ ~TargetFails
    /\ PortsFail
    /\ TermsFail
    /\ last.alerts = <<MalformedPortListMsg>>

\* C10: a submit event whose agreement flag is not set (checkbox unchecked or
\* not found) hands nothing to submitScan, and raises the agreement alert
\* unless an earlier check has failed.
C10_AgreementRequired ==
    (last.event /\ ~(last.form.terms.present /\ last.form.terms.checked)) =>
      /\ last.handed = <<>>
      /\ (~TargetFails /\ ~PortsFail) => last.alerts = <<AgreementRequiredMsg>>

\* C11: the re-scan click removes the stored result and assigns the scanning
\* page; the results page is left for the scanning page only with nothing
\* stored; and the loadResultsPage that follows a submission's result being
\* rendered and cleared finds nothing stored, writes the placeholder text and
\* nothing else (no summary field, no row, no listener).
C11_RescanClearsStoredResult ==
    [][ /\ (trail = "rendered" /\ trail' = "cleared")
              => ~hasItem(sessionStorage', ResultKey) /\ href' = ScanningPage
        /\ (page = ResultsPage /\ page' = ScanningPage)
              => ~hasItem(sessionStorage, ResultKey)
        /\ (trail = "cleared" /\ trail' = "reloaded")
              => /\ ~hasItem(sessionStorage, ResultKey)
                 /\ view' = [view EXCEPT !.targetIp = PlaceholderText] ]_vars

\* C11 happens: a submission stored a result, the results page rendered it,
\* the re-scan button was clicked, and results.html, opened again, shows the
\* placeholder in an otherwise blank document
C11_PlaceholderAfterRescan ==
    /\ trail = "reloaded"
    /\ page = ResultsPage
    /\ view = [BlankResults EXCEPT !.targetIp = PlaceholderText]

\* the target rule as specified: the emptiness test and the format test both
\* look at the trimmed text
TargetReference(raw) ==
    IF Trim(raw) = <<>> THEN EmptyTargetMsg
    ELSE IF ~( \/ MatchHostname(Trim(raw))
               \/ MatchDottedQuad(Trim(raw))
               \/ MatchBracketedV6(Trim(raw)) ) THEN InvalidFormatMsg
    ELSE NoError

NamedByExpression == Letter \cup Digit \cup {".", ":", "[", "]", "-"}

HasForeignCharacter(s) == \E i \in 1..Len(s) : s[i] \notin NamedByExpression

IsInteger(tok) == tok # <<>> /\ AllIn(tok, Digit)

\* an integer, or integer-hyphen-integer
IsPortToken(tok) ==
    \/ IsInteger(tok)
    \/ \E k \in 1..Len(tok) :
          /\ tok[k] = "-"
          /\ IsInteger(SubSeq(tok, 1, k - 1))
          /\ IsInteger(SubSeq(tok, k + 1, Len(tok)))

\* the port-list rule as specified
PortsReference(raw) ==
    IF Trim(raw) = <<>> THEN EmptyPortsMsg
    ELSE IF ~(\A k \in 1..Len(Split(StripWhiteSpace(raw), ",")) :
                 IsPortToken(Split(StripWhiteSpace(raw), ",")[k]))
      THEN MalformedPortListMsg
    ELSE NoError

\* C14: for every text, validatePorts returns what the specified rule gives:
\* the empty-ports error iff the trimmed text is empty, otherwise the
\* malformed-list error iff the text with its white space removed is not a
\* comma-separated list of integers and integer-hyphen-integer tokens,
\* otherwise no error; in particular '445-443' and '99999' pass, '21,,80'
\* is malformed and '21, 80 , 443-445' passes.
C14_PortsAsSpecified ==
    /\ ret # "" => ret = PortsReference(arg)
    /\ (ret # "" /\ arg \in { <<"4", "4", "5", "-", "4", "4", "3">>,
                               <<"9", "9", "9", "9", "9">> }) => ret = NoError
    /\ (ret # "" /\ arg = <<"2", "1", ",", ",", "8", "0">>) => ret = MalformedPortListMsg
    /\ (ret # "" /\ arg = <<"2", "1", ",", " ", "8", "0", " ", ",", " ",
                               "4", "4", "3", "-", "4", "4", "5">>) => ret = NoError

\* C14 happens: a list with blanks between its tokens was accepted
C14_SpacedListAccepted ==
    /\ ret = NoError
    /\ arg = <<"2", "1", ",", " ", "8", "0", " ", ",", " ",
                "4", "4", "3", "-", "4", "4", "5">>

\* the open-port records of the stored result: data.open_ports, none when the
\* field is missing
StoredRecords ==
    LET openPorts == Field(JSONparse(getItem(sessionStorage, ResultKey)), "open_ports")
    IN IF openPorts.t = "arr" THEN openPorts.v ELSE <<>>

\* loadResultsPage has just run on a stored result
Rendered ==
    /\ page = ResultsPage
    /\ page' = ResultsPage
    /\ hasItem(sessionStorage, ResultKey)
    /\ view' # view

\* C15: after loadResultsPage has run on a stored result the table body has
\* one row per open-port record, in the records' order; the empty-state
\* message is shown iff there is no record, and is hidden otherwise; the
\* count shown is the number of records; and a further call on the same
\* stored result leaves the same rows.
C15_OneRowPerRecord ==
    [][ Rendered =>
          /\ Len(view'.rows) = Len(StoredRecords)
          /\ \A k \in 1..Len(StoredRecords) :
                view'.rows[k].port = TextContent(Field(StoredRecords[k], "port"))
          /\ (view'.noPortsMsg = "block") <=> (StoredRecords = <<>>)
          /\ (view'.noPortsMsg = "none") <=> (StoredRecords # <<>>)
          /\ view'.openPortsCount = ToString(Len(StoredRecords))
          /\ view.listeners > 0 => view'.rows = view.rows ]_vars

\* C15 happens: loadResultsPage has run twice on a stored result with three
\* open-port records, and three rows are shown
C15_ThreeRowsAfterSecondCall ==
    /\ page = ResultsPage
    /\ view.listeners = 2
    /\ Len(StoredRecords) = 3
    /\ Len(view.rows) = 3
    /\ view.openPortsCount = "3"

\* C16: every scanData object script1.js's submit listener hands to
\* submitScan has a ports field that is filled only when port_mode is
\* 'custom', and is the empty string whenever port_mode is not 'custom'.
C16_PortsOnlyWhenCustom ==
    \A p \in Handed :
        /\ p.ports # <<>> => p.port_mode = "custom"
        /\ p.port_mode # "custom" => p.ports = <<>>

\* a submission has just ended in success: no alert, the results page assigned
Stored == done'.id # 0 /\ done'.alerts = <<>> /\ href' = ResultsPage

\* C17: on both submission paths of scriptgemin.js a successful submission
\* leaves its result in sessionStorage under 'scanResults'; the
\* loadResultsPage that follows a successful submission renders a result
\* and not the placeholder; and after the re-scan click nothing is stored
\* and the next loadResultsPage shows the placeholder.
C17_ResultHandedToResultsPage ==
    [][ /\ Stored => /\ hasItem(sessionStorage', ResultKey)
                      /\ sessionStorage'[ResultKey] = JSONstringify(done'.resp.body)
        /\ (trail = "stored" /\ trail' = "rendered")
              => /\ view'.targetIp # PlaceholderText
                 /\ view'.listeners > 0
        /\ (trail = "rendered" /\ trail' = "cleared")
              => ~hasItem(sessionStorage', ResultKey)
        /\ (trail = "cleared" /\ trail' = "reloaded")
              => view'.targetIp = PlaceholderText ]_vars

\* C18: whenever submitScan has been called and no call is in flight, the
\* start button is enabled and shows the label the page gave it, not the
\* busy label.
C18_LabelRestoredWhenIdle ==
    ( /\ page = ScanningPage
      /\ btn.present
      /\ calls # <<>>
      /\ \A i \in 1..MaxSubmits : ~InFlight(i) )
        => /\ ~btn.disabled
           /\ btn.innerHTML \in ButtonLabels
           /\ btn.innerHTML # BusyLabel
====
